---------------------------- MODULE Spec2Model ----------------------------
(***************************************************************************)
(* The system-call dispatcher of the kernel (src/src/syscall/handle.rs):   *)
(* syscall_handle(eax, ebx, ecx, edx) over the process table `contexts`,   *)
(* the scheduling cursor `context_i`, the session's window list, the event *)
(* queue and the debug surface.  Every handler arm is modelled statement   *)
(* by statement: a frame on the stack of the executing context holds the   *)
(* arm's position and locals, and switch() exchanges the executing stack.  *)
(***************************************************************************)
EXTENDS Integers, Sequences, FiniteSets, TLC

(***************************************************************************)
(* Bounds of the model.                                                    *)
(***************************************************************************)
MaxContexts == 4
CoreContexts == 3
MaxWindows == 2
MaxEvents == 1
MaxInterrupts == 1

(***************************************************************************)
(* Operation codes matched by syscall_handle; SYS_OTHER stands for every   *)
(* code that no arm matches.                                               *)
(***************************************************************************)
SYS_DEBUG == "SYS_DEBUG"
SYS_EXIT == "SYS_EXIT"
SYS_OPEN == "SYS_OPEN"
SYS_TRIGGER == "SYS_TRIGGER"
SYS_WINDOW_CREATE == "SYS_WINDOW_CREATE"
SYS_WINDOW_DESTROY == "SYS_WINDOW_DESTROY"
SYS_YIELD == "SYS_YIELD"
SYS_OTHER == "SYS_OTHER"

(***************************************************************************)
(* Program constants.                                                      *)
(***************************************************************************)
IsizeMax == 2147483647
NEWLINE == 10
GLYPH_W == 8
GLYPH_H == 16
KEY_F1 == 59
KEY_F2 == 60
REDRAW_NONE == 0
REDRAW_CURSOR == 1
REDRAW_ALL == 2

VARIABLES
    contexts,      \* the process table: a sequence of context identities
    context_i,     \* the scheduling cursor
    interrupts,    \* the CPU's interrupt-enabled flag
    active,        \* the context whose address space is the active translation
    running,       \* the context whose stack the CPU executes
    frames,        \* per context: its stack of dispatcher frames (top first)
    windows,       \* session.windows
    events,        \* the global event queue
    display,       \* session.display: [width, height]
    mouse_point,   \* session.mouse_point: [x, y]
    redraw,        \* session.redraw
    debug_display, \* <<>> when null, <<[width, height]>> when configured
    debug_point,   \* [x, y]
    debug_draw,
    debug_redraw,
    last,          \* what the step just taken did (history only)
    visits,        \* the cursor values of the latest yields (history only)
    taken,         \* the number of interrupts taken so far
    done           \* the system call that returned last (history only)

sched == <<contexts, context_i, active, running>>
session == <<windows, display, mouse_point, redraw>>
debug == <<debug_display, debug_point, debug_draw, debug_redraw>>
vars == <<contexts, context_i, interrupts, active, running, frames,
          windows, events, display, mouse_point, redraw,
          debug_display, debug_point, debug_draw, debug_redraw,
          last, visits, taken, done>>

Ctx == 1..MaxContexts

\* isize on the 32-bit target, and its addition: whether x + y leaves the
\* range, and the sum as a build without overflow checks computes it.
IsizeMin == -IsizeMax - 1

AddOverflows(x, y) ==
    \/ y > 0 /\ x > IsizeMax - y
    \/ y < 0 /\ x < IsizeMin - y

WrappingAdd(x, y) ==
    IF y > 0 /\ x > IsizeMax - y THEN (x + IsizeMin) + (y + IsizeMin)
    ELSE IF y < 0 /\ x < IsizeMin - y THEN (x - IsizeMin) + (y - IsizeMin)
    ELSE x + y

Max(a, b) == IF a >= b THEN a ELSE b
Min(a, b) == IF a <= b THEN a ELSE b

(***************************************************************************)
(* The kernel's vector type, indexed from 0.  get and remove return an     *)
(* Option: <<>> is None, <<x>> is Some(x).                                 *)
(***************************************************************************)
Get(v, i) == IF i < Len(v) THEN <<v[i + 1]>> ELSE <<>>

RemoveAt(v, i) ==
    IF i < Len(v)
    THEN [k \in 1..(Len(v) - 1) |-> IF k <= i THEN v[k] ELSE v[k + 1]]
    ELSE v

InsertAt(v, i, x) ==
    [k \in 1..(Len(v) + 1) |->
        IF k <= i THEN v[k] ELSE IF k = i + 1 THEN x ELSE v[k - 1]]

Push(v, x) == Append(v, x)

(***************************************************************************)
(* The caller's memory behind the pointer in ebx of SYS_TRIGGER: a table   *)
(* of sample Event records {code, a, b, c}.                                *)
(***************************************************************************)
EventAt ==
    <<[code |-> "m", a |-> 1, b |-> 1, c |-> 0],
      [code |-> "m", a |-> -1, b |-> -1, c |-> 0],
      [code |-> "k", a |-> 0, b |-> KEY_F1, c |-> 1],
      [code |-> "k", a |-> 0, b |-> KEY_F2, c |-> 1],
      [code |-> "k", a |-> 0, b |-> KEY_F1, c |-> 0],
      [code |-> "x", a |-> 5, b |-> 6, c |-> 7],
      [code |-> "m", a |-> 3, b |-> -2, c |-> 9],
      [code |-> "k", a |-> 0, b |-> KEY_F2, c |-> 0],
      [code |-> "m", a |-> IsizeMax, b |-> 0, c |-> 0]>>

NoEvent == [code |-> "", a |-> 0, b |-> 0, c |-> 0]

(***************************************************************************)
(* The shared state as an operation finds it on entry (history only).      *)
(***************************************************************************)
Snap ==
    [contexts |-> contexts, context_i |-> context_i, windows |-> windows,
     events |-> events, interrupts |-> interrupts,
     active |-> active, running |-> running,
     mouse_point |-> mouse_point, redraw |-> redraw,
     debug_point |-> debug_point, debug_draw |-> debug_draw,
     debug_redraw |-> debug_redraw]

NoSnap ==
    [contexts |-> <<>>, context_i |-> 0, windows |-> <<>>,
     events |-> <<>>, interrupts |-> FALSE, active |-> 0, running |-> 0,
     mouse_point |-> [x |-> 0, y |-> 0], redraw |-> 0,
     debug_point |-> [x |-> 0, y |-> 0], debug_draw |-> FALSE,
     debug_redraw |-> FALSE]

(***************************************************************************)
(* match eax: the first statement of the arm that eax selects.             *)
(***************************************************************************)
Entry(eax) ==
    CASE eax = SYS_DEBUG -> "debug"
      [] eax = SYS_EXIT -> "e_acq"
      [] eax = SYS_OPEN -> "open"
      [] eax = SYS_TRIGGER -> "t_copy"
      [] eax = SYS_WINDOW_CREATE -> "wc_acq"
      [] eax = SYS_WINDOW_DESTROY -> "wd_acq"
      [] eax = SYS_YIELD -> "y_acq"
      [] OTHER -> "ret"

(***************************************************************************)
(* A dispatcher frame: the arguments, the position in the arm, the arm's   *)
(* locals.  irq tells a frame entered from a hardware interrupt from one   *)
(* entered by a system call.  guard, acq, switched and entry are history:  *)
(* whether the frame holds the Mask Guard, the flag its acquire found,     *)
(* whether a switch suspended it, and the shared state on entry.           *)
(***************************************************************************)
BlankFrame(eax, ebx) ==
    [eax |-> eax, ebx |-> ebx, pc |-> Entry(eax),
     reenable |-> FALSE, current_i |-> 0, i |-> 0, event |-> NoEvent,
     current |-> <<>>, next |-> <<>>, scrolls |-> 0,
     irq |-> FALSE,
     guard |-> FALSE, acq |-> FALSE, switched |-> FALSE, entry |-> NoSnap]

NewFrame(eax, ebx) == [BlankFrame(eax, ebx) EXCEPT !.entry = Snap]

\* A frame as switch() leaves it: only what the code after the switch reads.
Suspended(f, pc) ==
    [BlankFrame(f.eax, 0) EXCEPT !.pc = pc, !.reenable = f.reenable,
        !.irq = f.irq, !.guard = f.guard, !.acq = f.acq, !.switched = TRUE]

HasFrame == frames[running] # <<>>
Top == Head(frames[running])
At(eax, pc) == HasFrame /\ Top.eax = eax /\ Top.pc = pc
SetTop(f) == [frames EXCEPT ![running] = <<f>> \o Tail(@)]

(***************************************************************************)
(* The record of a step: the arm and statement, whether interrupts were    *)
(* masked and the frame held the guard when it ran, the shared singletons  *)
(* it read or wrote, and the control transfer it made.                     *)
(***************************************************************************)
Quiet ==
    [eax |-> "", pc |-> "", masked |-> TRUE, guard |-> TRUE, objs |-> {},
     kind |-> "", target |-> 0, from |-> 0, prev |-> <<"", 0>>,
     entry |-> NoSnap]

Did(objs, kind, target) ==
    [eax |-> Top.eax, pc |-> Top.pc, masked |-> ~interrupts,
     guard |-> Top.guard, objs |-> objs, kind |-> kind, target |-> target,
     from |-> running, prev |-> <<last.kind, last.target>>,
     entry |-> Top.entry]

(***************************************************************************)
(* The Mask Guard.  start_no_ints captures the interrupt-enabled flag and  *)
(* disables interrupts; end_no_ints restores the captured state.           *)
(***************************************************************************)
start_no_ints(f) ==
    /\ interrupts' = FALSE
    /\ frames' = SetTop([f EXCEPT !.reenable = interrupts,
                                  !.acq = interrupts, !.guard = TRUE])

end_no_ints(reenable) == interrupts' = reenable

(***************************************************************************)
(* Context::remap and Context::switch.  remap makes the target's address   *)
(* space the active translation.  switch saves the executing state into    *)
(* `current` and resumes the state saved in `next`; the code after the     *)
(* call (at `pc`) runs when a later switch names `current` again.  `below` *)
(* is the part of the executing stack under the switching frame that is    *)
(* saved with it.                                                          *)
(***************************************************************************)
remap(next) == active' = next

switch(current, next, pc, below) ==
    /\ frames' = [frames EXCEPT ![current] = <<Suspended(Top, pc)>> \o below]
    /\ running' = next

(***************************************************************************)
(* The cursor arithmetic and the tests of the scheduler arms.              *)
(***************************************************************************)
\* context_i += 1;
AdvanceByTwo(i) == i + 2
Advance(i) == i + 1

\* if context_i >= contexts.len() { context_i -= contexts.len(); }
WrapAbove(i, len) == IF i > len THEN i - len ELSE i
Wrap(i, len) == IF i >= len THEN i - len ELSE i

\* if context_i != current_i
SwitchForwardOnly(i, current_i) == i > current_i
SwitchAlways(i, current_i) == TRUE
ShouldSwitch(i, current_i) == i # current_i

\* if contexts.len() > 1 && context_i > 1
ExitPermittedAboveZero(len, i) == len > 1 /\ i > 0
ExitPermittedAnyIndex(len, i) == len > 1
ExitPermitted(len, i) == len > 1 /\ i > 1

\* The history of yields, kept by the specifications that start it with the
\* initial cursor: the cursor before the earliest yield recorded and the
\* cursor after each yield since, at most len + 1 values.  A change of the
\* table restarts it.
Recorded(v, i, len) ==
    IF v = <<>> THEN v
    ELSE IF Len(v) > len THEN SubSeq(v, Len(v) - len + 1, Len(v)) \o <<i>>
    ELSE v \o <<i>>

Restarted(v, i) == IF v = <<>> THEN v ELSE <<i>>

\* The history of returned calls: the code, the argument, and the window
\* list before and after the call.  <<>> keeps the history off.
NoCall == <<[eax |-> "", ebx |-> 0, before |-> <<>>, after |-> <<>>]>>

Completed(d) ==
    IF d = <<>> THEN d
    ELSE <<[eax |-> Top.eax, ebx |-> Top.ebx,
            before |-> Top.entry.windows, after |-> windows]>>

(***************************************************************************)
(* The trap: a context in user code enters syscall_handle.                 *)
(***************************************************************************)
Syscall(eax, ebx) ==
    /\ ~HasFrame
    /\ frames' = [frames EXCEPT ![running] = <<NewFrame(eax, ebx)>>]
    /\ last' = [Quiet EXCEPT !.eax = eax, !.kind = "trap"]
    /\ UNCHANGED <<done, taken, visits, sched, interrupts, session, events, debug>>

\* The end of the matched arm, or the default arm `_ => ()`.
Return ==
    /\ HasFrame /\ Top.pc = "ret" /\ ~Top.irq
    /\ frames' = [frames EXCEPT ![running] = Tail(@)]
    /\ last' = Quiet
    /\ done' = Completed(done)
    /\ UNCHANGED <<taken, visits, sched, interrupts, session, events, debug>>

(***************************************************************************)
(* A hardware interrupt enters the dispatcher on the stack of the          *)
(* executing context.  The CPU takes it only while interrupts are enabled  *)
(* and masks them for the handler; the handler's return restores the       *)
(* enabled flag of the code it interrupted.  (The entry snapshot of an     *)
(* interrupted frame no longer describes what that frame alone did, and is *)
(* dropped.)                                                               *)
(***************************************************************************)
Interrupt(eax, ebx) ==
    /\ interrupts
    /\ taken < MaxInterrupts
    /\ taken' = taken + 1
    /\ interrupts' = FALSE
    /\ frames' = [frames EXCEPT ![running] =
          <<[NewFrame(eax, ebx) EXCEPT !.irq = TRUE, !.entry.interrupts = FALSE]>>
          \o (IF @ = <<>> THEN <<>>
              ELSE <<[Head(@) EXCEPT !.entry = NoSnap, !.switched = TRUE]>>
                   \o Tail(@))]
    /\ last' = [Quiet EXCEPT !.eax = eax, !.kind = "irq", !.masked = FALSE,
                             !.guard = IF HasFrame THEN Top.guard ELSE FALSE,
                             !.pc = IF HasFrame THEN Top.pc ELSE ""]
    /\ UNCHANGED <<done, visits, sched, session, events, debug>>

IrqReturn ==
    /\ HasFrame /\ Top.pc = "ret" /\ Top.irq
    /\ frames' = [frames EXCEPT ![running] = Tail(@)]
    /\ interrupts' = TRUE
    /\ last' = Quiet
    /\ UNCHANGED <<done, taken, visits, sched, session, events, debug>>

(***************************************************************************)
(* SYS_YIELD                                                               *)
(***************************************************************************)
YieldAcquire ==
    /\ At(SYS_YIELD, "y_acq")
    /\ start_no_ints([Top EXCEPT !.pc = "y_inc"])
    /\ last' = Did({}, "acquire", 0)
    /\ UNCHANGED <<done, taken, visits, sched, session, events, debug>>

\* let current_i = context_i; context_i += 1;
YieldAdvance ==
    /\ At(SYS_YIELD, "y_inc")
    /\ context_i' = Advance(context_i)
    /\ frames' = SetTop([Top EXCEPT !.current_i = context_i, !.pc = "y_wrap"])
    /\ last' = Did({"context_i"}, "write", 0)
    /\ UNCHANGED <<done, taken, visits, contexts, active, running, interrupts, session, events, debug>>

\* if context_i >= contexts.len() { context_i -= contexts.len(); }
YieldWrap ==
    /\ At(SYS_YIELD, "y_wrap")
    /\ context_i' = Wrap(context_i, Len(contexts))
    /\ visits' = Recorded(visits, context_i', Len(contexts))
    /\ frames' = SetTop([Top EXCEPT !.pc = "y_sel"])
    /\ last' = Did({"contexts", "context_i"}, "write", 0)
    /\ UNCHANGED <<done, taken, contexts, active, running, interrupts, session, events, debug>>

\* if context_i != current_i { match contexts.get(current_i) ... get(context_i)
YieldSelect ==
    /\ At(SYS_YIELD, "y_sel")
    /\ LET current == Get(contexts, Top.current_i)
           next == Get(contexts, context_i)
       IN IF ShouldSwitch(context_i, Top.current_i)
             /\ current # <<>> /\ next # <<>>
          THEN frames' = SetTop([Top EXCEPT !.current = current,
                                            !.next = next, !.pc = "y_remap"])
          ELSE frames' = SetTop([Top EXCEPT !.pc = "y_rel"])
    /\ last' = Did({"contexts", "context_i"}, "read", 0)
    /\ UNCHANGED <<done, taken, visits, sched, interrupts, session, events, debug>>

YieldRemapCurrent ==
    /\ At(SYS_YIELD, "y_remap")
    /\ remap(Top.current[1])
    /\ frames' = SetTop([Top EXCEPT !.pc = "y_switch"])
    /\ last' = Did({"contexts"}, "remap", Top.current[1])
    /\ UNCHANGED <<done, taken, visits, contexts, context_i, running, interrupts, session, events, debug>>

\* current.remap(next);
YieldRemap ==
    /\ At(SYS_YIELD, "y_remap")
    /\ remap(Top.next[1])
    /\ frames' = SetTop([Top EXCEPT !.pc = "y_switch"])
    /\ last' = Did({"contexts"}, "remap", Top.next[1])
    /\ UNCHANGED <<done, taken, visits, contexts, context_i, running, interrupts, session, events, debug>>

\* current.switch(next);
YieldSwitch ==
    /\ At(SYS_YIELD, "y_switch")
    /\ switch(Top.current[1], Top.next[1], "y_rel", Tail(frames[running]))
    /\ last' = Did({"contexts"}, "switch", Top.next[1])
    /\ UNCHANGED <<done, taken, visits, contexts, context_i, active, interrupts, session, events, debug>>

YieldReleaseEnabling ==
    /\ At(SYS_YIELD, "y_rel")
    /\ end_no_ints(TRUE)
    /\ frames' = SetTop([Top EXCEPT !.guard = FALSE, !.pc = "ret"])
    /\ last' = Did({}, "release", 0)
    /\ UNCHANGED <<done, taken, visits, sched, session, events, debug>>

\* end_no_ints(reenable);
YieldRelease ==
    /\ At(SYS_YIELD, "y_rel")
    /\ end_no_ints(Top.reenable)
    /\ frames' = SetTop([Top EXCEPT !.guard = FALSE, !.pc = "ret"])
    /\ last' = Did({}, "release", 0)
    /\ UNCHANGED <<done, taken, visits, sched, session, events, debug>>

(***************************************************************************)
(* SYS_EXIT                                                                *)
(***************************************************************************)
ExitAcquire ==
    /\ At(SYS_EXIT, "e_acq")
    /\ start_no_ints([Top EXCEPT !.pc = "e_check"])
    /\ last' = Did({}, "acquire", 0)
    /\ UNCHANGED <<done, taken, visits, sched, session, events, debug>>

\* if contexts.len() > 1 && context_i > 1 {
ExitCheck ==
    /\ At(SYS_EXIT, "e_check")
    /\ frames' = SetTop([Top EXCEPT !.pc =
            IF ExitPermitted(Len(contexts), context_i)
            THEN "e_remove" ELSE "e_rel"])
    /\ last' = Did({"contexts", "context_i"}, "read", 0)
    /\ UNCHANGED <<done, taken, visits, sched, interrupts, session, events, debug>>

\* The exit that reads the entry at the cursor and leaves it in the table.
ExitRemoveKept ==
    /\ At(SYS_EXIT, "e_remove")
    /\ frames' = SetTop([Top EXCEPT !.current = Get(contexts, context_i),
                                    !.pc = "e_fix"])
    /\ visits' = Restarted(visits, context_i)
    /\ last' = Did({"contexts", "context_i"}, "write", 0)
    /\ UNCHANGED <<done, taken, sched, interrupts, session, events, debug>>

\* let current_option = contexts.remove(context_i);
ExitRemove ==
    /\ At(SYS_EXIT, "e_remove")
    /\ contexts' = RemoveAt(contexts, context_i)
    /\ frames' = SetTop([Top EXCEPT !.current = Get(contexts, context_i),
                                    !.pc = "e_fix"])
    /\ visits' = Restarted(visits, context_i)
    /\ last' = Did({"contexts", "context_i"}, "write", 0)
    /\ UNCHANGED <<done, taken, context_i, active, running, interrupts, session, events, debug>>

ExitRebaseSkipped ==
    /\ At(SYS_EXIT, "e_fix")
    /\ visits' = Restarted(visits, context_i)
    /\ frames' = SetTop([Top EXCEPT !.pc = "e_sel"])
    /\ last' = Did({"contexts", "context_i"}, "write", 0)
    /\ UNCHANGED <<done, taken, contexts, context_i, active, running, interrupts, session, events, debug>>

\* if context_i >= contexts.len() { context_i -= contexts.len(); }
ExitRebase ==
    /\ At(SYS_EXIT, "e_fix")
    /\ context_i' = Wrap(context_i, Len(contexts))
    /\ visits' = Restarted(visits, context_i')
    /\ frames' = SetTop([Top EXCEPT !.pc = "e_sel"])
    /\ last' = Did({"contexts", "context_i"}, "write", 0)
    /\ UNCHANGED <<done, taken, contexts, active, running, interrupts, session, events, debug>>

\* The exit that always hands over to the entry at index 0.
ExitSelectFirst ==
    /\ At(SYS_EXIT, "e_sel")
    /\ LET next == Get(contexts, 0)
       IN IF Top.current # <<>> /\ next # <<>>
          THEN frames' = SetTop([Top EXCEPT !.next = next, !.pc = "e_remap"])
          ELSE frames' = SetTop([Top EXCEPT !.pc = "e_rel"])
    /\ last' = Did({"contexts", "context_i"}, "read", 0)
    /\ UNCHANGED <<done, taken, visits, sched, interrupts, session, events, debug>>

\* match current_option { Some(mut current) => match contexts.get(context_i) {
ExitSelect ==
    /\ At(SYS_EXIT, "e_sel")
    /\ LET next == Get(contexts, context_i)
       IN IF Top.current # <<>> /\ next # <<>>
          THEN frames' = SetTop([Top EXCEPT !.next = next, !.pc = "e_remap"])
          ELSE frames' = SetTop([Top EXCEPT !.pc = "e_rel"])
    /\ last' = Did({"contexts", "context_i"}, "read", 0)
    /\ UNCHANGED <<done, taken, visits, sched, interrupts, session, events, debug>>

\* current.remap(next);
ExitRemap ==
    /\ At(SYS_EXIT, "e_remap")
    /\ remap(Top.next[1])
    /\ frames' = SetTop([Top EXCEPT !.pc = "e_switch"])
    /\ last' = Did({"contexts"}, "remap", Top.next[1])
    /\ UNCHANGED <<done, taken, visits, contexts, context_i, running, interrupts, session, events, debug>>

\* current.switch(next);  `current` is the removed context, which no later
\* switch can name: of its stack only the exiting frame is kept.
ExitSwitch ==
    /\ At(SYS_EXIT, "e_switch")
    /\ switch(Top.current[1], Top.next[1], "e_rel", <<>>)
    /\ last' = Did({"contexts"}, "switch", Top.next[1])
    /\ UNCHANGED <<done, taken, visits, contexts, context_i, active, interrupts, session, events, debug>>

\* end_no_ints(reenable);
ExitRelease ==
    /\ At(SYS_EXIT, "e_rel")
    /\ end_no_ints(Top.reenable)
    /\ frames' = SetTop([Top EXCEPT !.guard = FALSE, !.pc = "ret"])
    /\ last' = Did({}, "release", 0)
    /\ UNCHANGED <<done, taken, visits, sched, session, events, debug>>

(***************************************************************************)
(* SYS_WINDOW_CREATE                                                       *)
(***************************************************************************)
WindowCreateAcquireOmitted ==
    /\ At(SYS_WINDOW_CREATE, "wc_acq")
    /\ frames' = SetTop([Top EXCEPT !.reenable = interrupts, !.pc = "wc_insert"])
    /\ last' = Did({}, "", 0)
    /\ UNCHANGED <<done, taken, visits, sched, interrupts, session, events, debug>>

WindowCreateAcquire ==
    /\ At(SYS_WINDOW_CREATE, "wc_acq")
    /\ start_no_ints([Top EXCEPT !.pc = "wc_insert"])
    /\ last' = Did({}, "acquire", 0)
    /\ UNCHANGED <<done, taken, visits, sched, session, events, debug>>

\* (*::session_ptr).windows.insert(0, ebx as *mut Window);
WindowCreateInsert ==
    /\ At(SYS_WINDOW_CREATE, "wc_insert")
    /\ windows' = InsertAt(windows, 0, Top.ebx)
    /\ frames' = SetTop([Top EXCEPT !.pc = "wc_rel"])
    /\ last' = Did({"session", "windows"}, "write", 0)
    /\ UNCHANGED <<done, taken, visits, sched, interrupts, display, mouse_point, redraw, events, debug>>

WindowCreateRelease ==
    /\ At(SYS_WINDOW_CREATE, "wc_rel")
    /\ end_no_ints(Top.reenable)
    /\ frames' = SetTop([Top EXCEPT !.guard = FALSE, !.pc = "ret"])
    /\ last' = Did({}, "release", 0)
    /\ UNCHANGED <<done, taken, visits, sched, session, events, debug>>

(***************************************************************************)
(* SYS_WINDOW_DESTROY                                                      *)
(***************************************************************************)
WindowDestroyAcquire ==
    /\ At(SYS_WINDOW_DESTROY, "wd_acq")
    /\ start_no_ints([Top EXCEPT !.i = 0, !.pc = "wd_loop"])
    /\ last' = Did({}, "acquire", 0)
    /\ UNCHANGED <<done, taken, visits, sched, session, events, debug>>

\* The loop as it would be with a `break` after the removal.
WindowDestroyLoopFirstOnly ==
    /\ At(SYS_WINDOW_DESTROY, "wd_loop")
    /\ LET window_ptr == Get(windows, Top.i)
       IN IF window_ptr = <<>>
          THEN /\ frames' = SetTop([Top EXCEPT !.pc = "wd_rel"])
               /\ windows' = windows
               /\ last' = Did({"session", "windows"}, "read", 0)
          ELSE IF window_ptr[1] = Top.ebx
          THEN /\ windows' = RemoveAt(windows, Top.i)
               /\ frames' = SetTop([Top EXCEPT !.pc = "wd_rel"])
               /\ last' = Did({"session", "windows"}, "write", Top.i)
          ELSE /\ windows' = windows
               /\ frames' = SetTop([Top EXCEPT !.i = Top.i + 1])
               /\ last' = Did({"session", "windows"}, "read", Top.i)
    /\ UNCHANGED <<done, taken, visits, sched, interrupts, display, mouse_point, redraw, events, debug>>

\* One evaluation of `while i < windows.len()` and, when it holds, one pass
\* of the loop body: a matching entry is removed and i stays, any other
\* entry advances i.
WindowDestroyLoop ==
    /\ At(SYS_WINDOW_DESTROY, "wd_loop")
    /\ IF Top.i < Len(windows)
       THEN LET window_ptr == Get(windows, Top.i)
            IN IF window_ptr = <<>>
               THEN /\ frames' = SetTop([Top EXCEPT !.pc = "wd_rel"])
                    /\ windows' = windows
                    /\ last' = Did({"session", "windows"}, "read", 0)
               ELSE IF window_ptr[1] = Top.ebx
               THEN /\ windows' = RemoveAt(windows, Top.i)
                    /\ frames' = frames
                    /\ last' = Did({"session", "windows"}, "write", Top.i)
               ELSE /\ windows' = windows
                    /\ frames' = SetTop([Top EXCEPT !.i = Top.i + 1])
                    /\ last' = Did({"session", "windows"}, "read", Top.i)
       ELSE /\ frames' = SetTop([Top EXCEPT !.pc = "wd_rel"])
            /\ windows' = windows
            /\ last' = Did({"session", "windows"}, "read", 0)
    /\ UNCHANGED <<done, taken, visits, sched, interrupts, display, mouse_point, redraw, events, debug>>

WindowDestroyRelease ==
    /\ At(SYS_WINDOW_DESTROY, "wd_rel")
    /\ end_no_ints(Top.reenable)
    /\ frames' = SetTop([Top EXCEPT !.guard = FALSE, !.pc = "ret"])
    /\ last' = Did({}, "release", 0)
    /\ UNCHANGED <<done, taken, visits, sched, session, events, debug>>

(***************************************************************************)
(* SYS_TRIGGER                                                             *)
(***************************************************************************)
\* let mut event = *(ebx as *const Event);
TriggerCopy ==
    /\ At(SYS_TRIGGER, "t_copy")
    /\ frames' = SetTop([Top EXCEPT !.event = EventAt[Top.ebx], !.pc = "t_mouse"])
    /\ last' = Did({}, "read", 0)
    /\ UNCHANGED <<done, taken, visits, sched, interrupts, session, events, debug>>

\* if event.code == 'm' { clamp, move the session cursor, raise redraw }
\* The sums are isize sums: where one overflows, a build with overflow
\* checks panics and a build without them wraps.
TriggerMouse ==
    /\ At(SYS_TRIGGER, "t_mouse")
    /\ LET event == Top.event
           a == Max(0, Min(display.width - 1, WrappingAdd(mouse_point.x, event.a)))
           b == Max(0, Min(display.height - 1, WrappingAdd(mouse_point.y, event.b)))
       IN IF event.code = "m"
          THEN \/ /\ frames' = SetTop([Top EXCEPT !.event.a = a, !.event.b = b,
                                                  !.pc = "t_key"])
                  /\ mouse_point' = [x |-> a, y |-> b]
                  /\ redraw' = Max(redraw, REDRAW_CURSOR)
                  /\ last' = Did({"session"}, "write", 0)
               \/ /\ \/ AddOverflows(mouse_point.x, event.a)
                     \/ AddOverflows(mouse_point.y, event.b)
                  /\ frames' = SetTop([Top EXCEPT !.pc = "panic"])
                  /\ UNCHANGED <<mouse_point, redraw>>
                  /\ last' = Did({"session"}, "panic", 0)
          ELSE /\ frames' = SetTop([Top EXCEPT !.pc = "t_key"])
               /\ UNCHANGED <<mouse_point, redraw>>
               /\ last' = Did({}, "", 0)
    /\ UNCHANGED <<done, taken, visits, sched, interrupts, windows, display, events, debug>>

\* The key handling with F2 also turning the overlay on when it is off.
TriggerKeyFlipping ==
    /\ At(SYS_TRIGGER, "t_key")
    /\ LET event == Top.event
           f1 == event.code = "k" /\ event.b = KEY_F1 /\ event.c > 0
           f2 == event.code = "k" /\ event.b = KEY_F2 /\ event.c > 0
       IN /\ debug_draw' = IF f2 THEN ~debug_draw ELSE IF f1 THEN TRUE ELSE debug_draw
          /\ debug_redraw' = IF f1 THEN TRUE ELSE debug_redraw
          /\ redraw' = IF f2 THEN Max(redraw, REDRAW_ALL) ELSE redraw
          /\ last' = Did((IF f1 \/ f2 THEN {"debug"} ELSE {})
                            \cup (IF f2 THEN {"session"} ELSE {}),
                         IF f1 \/ f2 THEN "write" ELSE "", 0)
    /\ frames' = SetTop([Top EXCEPT !.pc = "t_acq"])
    /\ UNCHANGED <<done, taken, visits, sched, interrupts, windows, display, mouse_point, events,
                   debug_display, debug_point>>

\* if event.code == 'k' && event.b == 0x3B && event.c > 0 { ... }
\* if event.code == 'k' && event.b == 0x3C && event.c > 0 { ... }
TriggerKey ==
    /\ At(SYS_TRIGGER, "t_key")
    /\ LET event == Top.event
           f1 == event.code = "k" /\ event.b = KEY_F1 /\ event.c > 0
           f2 == event.code = "k" /\ event.b = KEY_F2 /\ event.c > 0
       IN /\ debug_draw' = IF f2 THEN FALSE ELSE IF f1 THEN TRUE ELSE debug_draw
          /\ debug_redraw' = IF f1 THEN TRUE ELSE debug_redraw
          /\ redraw' = IF f2 THEN Max(redraw, REDRAW_ALL) ELSE redraw
          /\ last' = Did((IF f1 \/ f2 THEN {"debug"} ELSE {})
                            \cup (IF f2 THEN {"session"} ELSE {}),
                         IF f1 \/ f2 THEN "write" ELSE "", 0)
    /\ frames' = SetTop([Top EXCEPT !.pc = "t_acq"])
    /\ UNCHANGED <<done, taken, visits, sched, interrupts, windows, display, mouse_point, events,
                   debug_display, debug_point>>

TriggerAcquireOmitted ==
    /\ At(SYS_TRIGGER, "t_acq")
    /\ frames' = SetTop([Top EXCEPT !.reenable = interrupts, !.pc = "t_push"])
    /\ last' = Did({}, "", 0)
    /\ UNCHANGED <<done, taken, visits, sched, interrupts, session, events, debug>>

TriggerAcquire ==
    /\ At(SYS_TRIGGER, "t_acq")
    /\ start_no_ints([Top EXCEPT !.pc = "t_push"])
    /\ last' = Did({}, "acquire", 0)
    /\ UNCHANGED <<done, taken, visits, sched, session, events, debug>>

\* The push as an insertion at the front, as Window-create inserts.
TriggerPushFront ==
    /\ At(SYS_TRIGGER, "t_push")
    /\ events' = InsertAt(events, 0, Top.event)
    /\ frames' = SetTop([Top EXCEPT !.pc = "t_rel"])
    /\ last' = Did({"events"}, "write", 0)
    /\ UNCHANGED <<done, taken, visits, sched, interrupts, session, debug>>

\* (*::events_ptr).push(event);
TriggerPush ==
    /\ At(SYS_TRIGGER, "t_push")
    /\ events' = Push(events, Top.event)
    /\ frames' = SetTop([Top EXCEPT !.pc = "t_rel"])
    /\ last' = Did({"events"}, "write", 0)
    /\ UNCHANGED <<done, taken, visits, sched, interrupts, session, debug>>

TriggerRelease ==
    /\ At(SYS_TRIGGER, "t_rel")
    /\ end_no_ints(Top.reenable)
    /\ frames' = SetTop([Top EXCEPT !.guard = FALSE, !.pc = "ret"])
    /\ last' = Did({}, "release", 0)
    /\ UNCHANGED <<done, taken, visits, sched, session, events, debug>>

(***************************************************************************)
(* SYS_DEBUG                                                               *)
(***************************************************************************)
\* The drawing step without the wrap at the surface width.
DebugDrawNoWrap ==
    /\ At(SYS_DEBUG, "debug")
    /\ IF debug_display # <<>>
       THEN LET x1 == IF Top.ebx = NEWLINE THEN 0 ELSE debug_point.x + GLYPH_W
                y1 == IF Top.ebx = NEWLINE THEN debug_point.y + GLYPH_H
                                           ELSE debug_point.y
            IN /\ debug_point' = [x |-> x1, y |-> y1]
               /\ debug_redraw' = IF Top.ebx = NEWLINE THEN TRUE ELSE debug_redraw
               /\ frames' = SetTop([Top EXCEPT !.pc = "d_scroll"])
               /\ last' = Did({"debug"},
                              IF Top.ebx = NEWLINE THEN "break" ELSE "char",
                              Top.ebx % 256)
       ELSE /\ UNCHANGED <<debug_point, debug_redraw>>
            /\ frames' = SetTop([Top EXCEPT !.pc = "d_outb"])
            /\ last' = Did({"debug"}, "read", 0)
    /\ UNCHANGED <<done, taken, visits, sched, interrupts, session, events, debug_display, debug_draw>>

\* if ::debug_display as usize > 0 { line break or glyph; wrap }
DebugDraw ==
    /\ At(SYS_DEBUG, "debug")
    /\ IF debug_display # <<>>
       THEN LET d == debug_display[1]
                x1 == IF Top.ebx = NEWLINE THEN 0 ELSE debug_point.x + GLYPH_W
                y1 == IF Top.ebx = NEWLINE THEN debug_point.y + GLYPH_H
                                           ELSE debug_point.y
            IN /\ debug_point' = IF x1 >= d.width
                                 THEN [x |-> 0, y |-> y1 + GLYPH_H]
                                 ELSE [x |-> x1, y |-> y1]
               /\ debug_redraw' = IF Top.ebx = NEWLINE THEN TRUE ELSE debug_redraw
               /\ frames' = SetTop([Top EXCEPT !.pc = "d_scroll"])
               /\ last' = Did({"debug"},
                              IF Top.ebx = NEWLINE THEN "break" ELSE "char",
                              Top.ebx % 256)
       ELSE /\ UNCHANGED <<debug_point, debug_redraw>>
            /\ frames' = SetTop([Top EXCEPT !.pc = "d_outb"])
            /\ last' = Did({"debug"}, "read", 0)
    /\ UNCHANGED <<done, taken, visits, sched, interrupts, session, events, debug_display, debug_draw>>

\* while ::debug_point.y + 16 > display.height { display.scroll(16); y -= 16 }
DebugScroll ==
    /\ At(SYS_DEBUG, "d_scroll")
    /\ IF debug_point.y + GLYPH_H > debug_display[1].height
       THEN /\ debug_point' = [debug_point EXCEPT !.y = @ - GLYPH_H]
            /\ frames' = SetTop([Top EXCEPT !.scrolls = @ + 1])
            /\ last' = Did({"debug"}, "scroll", GLYPH_H)
       ELSE /\ debug_point' = debug_point
            /\ frames' = SetTop([Top EXCEPT !.pc = "d_outb"])
            /\ last' = Did({"debug"}, "read", 0)
    /\ UNCHANGED <<done, taken, visits, sched, interrupts, session, events,
                   debug_display, debug_draw, debug_redraw>>

\* outb(0x3F8, ebx as u8);
DebugOutb ==
    /\ At(SYS_DEBUG, "d_outb")
    /\ frames' = SetTop([Top EXCEPT !.pc = "ret"])
    /\ last' = Did({}, "outb", Top.ebx % 256)
    /\ UNCHANGED <<done, taken, visits, sched, interrupts, session, events, debug>>

(***************************************************************************)
(* SYS_OPEN                                                                *)
(***************************************************************************)
\* ptr::write(ecx as *mut Box<Resource>, session.open(&*url_ptr));
Open ==
    /\ At(SYS_OPEN, "open")
    /\ frames' = SetTop([Top EXCEPT !.pc = "ret"])
    /\ last' = Did({"session"}, "open", Top.ebx)
    /\ UNCHANGED <<done, taken, visits, sched, interrupts, session, events, debug>>

(***************************************************************************)
(* Initial states.  The table holds contexts 1..n in order, index 0 being  *)
(* the reserved context; the context at the cursor executes user code and  *)
(* every other context of the table is suspended in the switch of an       *)
(* earlier yield, holding the token that yield captured.                   *)
(***************************************************************************)
YieldSuspended(token) ==
    Suspended([BlankFrame(SYS_YIELD, 0) EXCEPT !.reenable = token,
                  !.acq = token, !.guard = TRUE], "y_rel")

InitSched(most, flags) ==
    \E n \in 1..most :
    \E c \in 0..(n - 1) :
    \E token \in [Ctx -> BOOLEAN] :
        /\ \A x \in Ctx : IF x <= n /\ x # c + 1
                           THEN token[x] \in flags ELSE ~token[x]
        /\ contexts = [k \in 1..n |-> k]
        /\ context_i = c
        /\ running = c + 1
        /\ active = c + 1
        /\ interrupts \in flags
        /\ frames = [x \in Ctx |->
                        IF x <= n /\ x # c + 1
                        THEN <<YieldSuspended(token[x])>> ELSE <<>>]

InitSession(width, height) ==
    /\ windows = <<>>
    /\ events = <<>>
    /\ display = [width |-> width, height |-> height]
    /\ mouse_point = [x |-> 0, y |-> 0]
    /\ redraw = REDRAW_NONE

InitDebug(surface) ==
    /\ debug_display = surface
    /\ debug_point = [x |-> 0, y |-> 0]
    /\ debug_draw = FALSE
    /\ debug_redraw = FALSE

Surface(width, height) == <<[width |-> width, height |-> height]>>

(***************************************************************************)
(* The requests user code makes.                                           *)
(***************************************************************************)
Handles == {1, 2}
Urls == {1}

DoYield == Syscall(SYS_YIELD, 0)
DoExit == Syscall(SYS_EXIT, 0)
DoOther == Syscall(SYS_OTHER, 0)
DoOpen == \E url \in Urls : Syscall(SYS_OPEN, url)
DoWindowCreate ==
    \E h \in Handles : Len(windows) < MaxWindows /\ Syscall(SYS_WINDOW_CREATE, h)
DoWindowDestroy == \E h \in Handles : Syscall(SYS_WINDOW_DESTROY, h)
DoTrigger(ptrs) ==
    \E p \in ptrs : Len(events) < MaxEvents /\ Syscall(SYS_TRIGGER, p)
DoDebug(bytes) == \E b \in bytes : Syscall(SYS_DEBUG, b)

YieldSteps ==
    \/ YieldAcquire \/ YieldAdvance \/ YieldWrap \/ YieldSelect
    \/ YieldRemap \/ YieldSwitch \/ YieldRelease

ExitSteps ==
    \/ ExitAcquire \/ ExitCheck \/ ExitRemove \/ ExitRebase \/ ExitSelect
    \/ ExitRemap \/ ExitSwitch \/ ExitRelease

WindowSteps ==
    \/ WindowCreateAcquire \/ WindowCreateInsert \/ WindowCreateRelease
    \/ WindowDestroyAcquire \/ WindowDestroyLoop \/ WindowDestroyRelease

TriggerSteps ==
    \/ TriggerCopy \/ TriggerMouse \/ TriggerKey
    \/ TriggerAcquire \/ TriggerPush \/ TriggerRelease

DebugSteps == DebugDraw \/ DebugScroll \/ DebugOutb

(***************************************************************************)
(* Spec: every operation of the dispatcher, on a one-pixel session display *)
(* and a one-glyph debug surface.                                          *)
(***************************************************************************)
Init ==
    /\ InitSched(CoreContexts, BOOLEAN)
    /\ InitSession(1, 1)
    /\ InitDebug(Surface(GLYPH_W, GLYPH_H))
    /\ last = Quiet
    /\ taken = 0
    /\ done = <<>>
    /\ visits = <<>>

DoTriggerCore == DoTrigger({1})
DoTriggerAny == DoTrigger({1, 3})
DoDebugCore == DoDebug({65})

Next ==
    \/ DoYield \/ DoExit \/ DoOther \/ DoOpen
    \/ DoWindowCreate \/ DoWindowDestroy \/ DoTriggerAny \/ DoDebugCore
    \/ YieldSteps \/ ExitSteps \/ WindowSteps \/ TriggerSteps \/ DebugSteps
    \/ Open \/ Return

Spec == Init /\ [][Next]_vars

(***************************************************************************)
(* SpecSched: the scheduler alone (yield, exit, unrecognized codes).       *)
(***************************************************************************)
NextSched ==
    \/ DoYield \/ DoExit \/ DoOther
    \/ YieldSteps \/ ExitSteps \/ Return

InitFull ==
    /\ InitSched(MaxContexts, BOOLEAN)
    /\ InitSession(1, 1)
    /\ InitDebug(Surface(GLYPH_W, GLYPH_H))
    /\ last = Quiet
    /\ taken = 0
    /\ done = <<>>
    /\ visits = <<context_i>>

SpecSched == InitFull /\ [][NextSched]_vars

(***************************************************************************)
(* SpecIrq: the operations that touch the table, the cursor, the window    *)
(* list and the event queue, requested by user code and by the handlers of *)
(* hardware interrupts.                                                    *)
(***************************************************************************)
DoWindowCreateOne ==
    Len(windows) < MaxWindows /\ Syscall(SYS_WINDOW_CREATE, 1)
DoWindowDestroyOne == Syscall(SYS_WINDOW_DESTROY, 1)

IrqYield == Interrupt(SYS_YIELD, 0)
IrqTrigger == Len(events) < MaxEvents /\ Interrupt(SYS_TRIGGER, 1)

NextIrq ==
    \/ DoYield \/ DoExit \/ DoTriggerCore
    \/ DoWindowCreateOne \/ DoWindowDestroyOne
    \/ IrqYield \/ IrqTrigger
    \/ YieldSteps \/ ExitSteps \/ WindowSteps \/ TriggerSteps
    \/ Return \/ IrqReturn

\* Every context entered its yield, and the executing one runs, with
\* interrupts enabled.
InitIrq ==
    /\ InitSched(CoreContexts, {TRUE})
    /\ InitSession(1, 1)
    /\ InitDebug(Surface(GLYPH_W, GLYPH_H))
    /\ last = Quiet
    /\ taken = 0
    /\ done = <<>>
    /\ visits = <<>>

SpecIrq == InitIrq /\ [][NextIrq]_vars

(***************************************************************************)
(* SpecWin: Window-create and Window-destroy by one context, from every    *)
(* window list of up to MaxWindows + 1 handles, duplicates included; the   *)
(* CPU keeps executing the arm it is in.                                   *)
(***************************************************************************)
WindowLists(n) == UNION {[1..k -> Handles] : k \in 0..n}

NextWin == DoWindowCreate \/ DoWindowDestroy \/ WindowSteps \/ Return

InitWin ==
    /\ InitSched(1, BOOLEAN)
    /\ windows \in WindowLists(MaxWindows + 1)
    /\ events = <<>>
    /\ display = [width |-> 1, height |-> 1]
    /\ mouse_point = [x |-> 0, y |-> 0]
    /\ redraw = REDRAW_NONE
    /\ InitDebug(Surface(GLYPH_W, GLYPH_H))
    /\ last = Quiet
    /\ taken = 0
    /\ done = NoCall
    /\ visits = <<>>

SpecWin == InitWin /\ [][NextWin]_vars /\ WF_vars(WindowSteps)

(***************************************************************************)
(* SpecEvt: Event-trigger by one context, for every sample event, from     *)
(* every cursor position, redraw level and debug flag setting on two       *)
(* display sizes, until the queue holds MaxEvents + 1 events; the codes    *)
(* that touch no shared state run in between.                              *)
(***************************************************************************)
Displays == {[width |-> 1, height |-> 1], [width |-> 2, height |-> 3]}

DoTriggerEvery ==
    \E p \in 1..Len(EventAt) :
        Len(events) < MaxEvents + 1 /\ Syscall(SYS_TRIGGER, p)

NextEvt == DoTriggerEvery \/ DoOther \/ DoOpen \/ TriggerSteps \/ Open \/ Return

InitEvt ==
    /\ InitSched(1, BOOLEAN)
    /\ windows = <<>>
    /\ events = <<>>
    /\ display \in Displays
    /\ mouse_point \in [x : 0..(display.width - 1), y : 0..(display.height - 1)]
    /\ redraw \in {REDRAW_NONE, REDRAW_CURSOR, REDRAW_ALL}
    /\ debug_display = Surface(GLYPH_W, GLYPH_H)
    /\ debug_point = [x |-> 0, y |-> 0]
    /\ debug_draw \in BOOLEAN
    /\ debug_redraw \in BOOLEAN
    /\ last = Quiet
    /\ taken = 0
    /\ done = <<>>
    /\ visits = <<>>

SpecEvt == InitEvt /\ [][NextEvt]_vars

(***************************************************************************)
(* SpecDbg: Debug-output by one context, of a line break, of a glyph and   *)
(* of a value whose low byte is 10, on no surface and on surfaces from     *)
(* narrower than a glyph and lower than a line to several glyphs wide and  *)
(* several lines high.                                                     *)
(***************************************************************************)
Surfaces ==
    {<<>>} \cup {Surface(w, h) : w \in {1, 8, 20, 24}, h \in {8, 16, 40, 48}}

DoDebugEvery == DoDebug({NEWLINE, 65, 266})

NextDbg == DoDebugEvery \/ DoOther \/ DebugSteps \/ Return

InitDbg ==
    /\ InitSched(1, BOOLEAN)
    /\ InitSession(1, 1)
    /\ \E surface \in Surfaces : InitDebug(surface)
    /\ last = Quiet
    /\ taken = 0
    /\ done = <<>>
    /\ visits = <<>>

SpecDbg == InitDbg /\ [][NextDbg]_vars

(***************************************************************************)
(* SpecLive: the scheduler alone, where the CPU keeps executing the arm it *)
(* is in and user code that can yield again and again does yield.          *)
(***************************************************************************)
SpecLive ==
    /\ InitFull
    /\ [][NextSched]_vars
    /\ WF_vars(YieldSteps \/ ExitSteps \/ Return)
    /\ SF_vars(DoYield)

(***************************************************************************)
(*                              Properties                                 *)
(***************************************************************************)
Range(v) == {v[k] : k \in 1..Len(v)}

\* C1: the table is never empty and the cursor is a valid index of it in
\* every state, except between the two statements of a cursor update (after
\* `context_i += 1` or `contexts.remove(context_i)` and before the
\* wrap-around that follows it).
CursorInBounds ==
    /\ Len(contexts) >= 1
    /\ ~(HasFrame /\ Top.pc \in {"y_wrap", "e_fix"})
          => context_i \in 0..(Len(contexts) - 1)

\* C1 witness: an exit removed the last entry and rebased the cursor to 0.
CursorRebased ==
    /\ last.eax = SYS_EXIT /\ last.pc = "e_fix"
    /\ last.entry.context_i = Len(contexts)
    /\ context_i = 0

\* C2: while the table is unchanged, the cursors of consecutive yields are
\* pairwise distinct, and once as many yields as the table has entries have
\* run, they have made every index the cursor exactly once and the cursor
\* is back at the value it had before the first of them.
RoundRobin ==
    /\ \A j, k \in 2..Len(visits) : j # k => visits[j] # visits[k]
    /\ Len(visits) = Len(contexts) + 1 =>
          /\ visits[Len(visits)] = visits[1]
          /\ {visits[k] : k \in 2..Len(visits)} = 0..(Len(contexts) - 1)

\* C2 witness: a full round of yields over the largest table has completed.
RoundCompleted ==
    /\ Len(contexts) = MaxContexts
    /\ Len(visits) = MaxContexts + 1
    /\ ~HasFrame

\* C3: a yield leaves the table as it was and sets the cursor to
\* (c + 1) mod N; when that differs from c it remaps and then switches to
\* the context at the new cursor, and when it equals c it reaches its
\* release with no remap and no switch.
YieldEffect ==
    /\ (last.eax = SYS_YIELD /\ last.kind = "switch") =>
          LET e == last.entry
          IN /\ contexts = e.contexts
             /\ context_i = (e.context_i + 1) % Len(e.contexts)
             /\ context_i # e.context_i
             /\ last.prev = <<"remap", last.target>>
             /\ last.target = contexts[context_i + 1]
             /\ running = last.target
             /\ active = last.target
    /\ (At(SYS_YIELD, "y_rel") /\ ~Top.switched) =>
          LET e == Top.entry
          IN /\ contexts = e.contexts
             /\ context_i = (e.context_i + 1) % Len(e.contexts)
             /\ context_i = e.context_i
             /\ running = e.running
             /\ active = e.active
             /\ last.pc = "y_sel"

\* C3 witness: a yield at the last index of a table of three or more wrapped
\* the cursor to 0 and switched.
YieldWrapped ==
    /\ last.eax = SYS_YIELD /\ last.kind = "switch"
    /\ Len(contexts) >= 3
    /\ last.entry.context_i = Len(contexts) - 1
    /\ context_i = 0

\* C4: an exit switches exactly when it was permitted on entry (L > 1 and
\* 1 < c < L); it has then removed the entry at c and nothing else, kept
\* the order of the rest, set the cursor to 0 if c was the last index and
\* left it at c otherwise, and remapped and then switched to the context at
\* the new cursor of the shortened table.
ExitEffect ==
    /\ (last.eax = SYS_EXIT /\ last.kind = "switch") =>
          LET e == last.entry
              c == e.context_i
              L == Len(e.contexts)
          IN /\ L > 1 /\ 1 < c /\ c < L
             /\ Len(contexts) = L - 1
             /\ \A k \in 1..(L - 1) :
                   contexts[k] = e.contexts[IF k <= c THEN k ELSE k + 1]
             /\ e.contexts[c + 1] \notin Range(contexts)
             /\ last.from = e.contexts[c + 1]
             /\ context_i = IF c = L - 1 THEN 0 ELSE c
             /\ last.prev = <<"remap", last.target>>
             /\ last.target = contexts[context_i + 1]
             /\ running = last.target
             /\ active = last.target
    /\ At(SYS_EXIT, "e_rel") =>
          LET e == Top.entry
          IN ~(Len(e.contexts) > 1 /\ 1 < e.context_i
                  /\ e.context_i < Len(e.contexts))

\* C4 witness: table [1, 2, 3] with cursor 2 became [1, 2] with cursor 0
\* and control went to context 1.
ExitOfLast ==
    /\ last.eax = SYS_EXIT /\ last.kind = "switch"
    /\ last.entry.contexts = <<1, 2, 3>> /\ last.entry.context_i = 2
    /\ contexts = <<1, 2>> /\ context_i = 0
    /\ running = 1 /\ active = 1

\* C5: an exit entered with table length <= 1 or cursor <= 1, a
\* Window-destroy of a handle that is not in the list, and an unrecognized
\* code leave the table, the cursor, the window list, the event queue, the
\* active address space and the executing context as on entry at every step,
\* make no remap and no switch, and leave the interrupt flag as on entry
\* (masked only while they hold the guard).
Malformed(f) ==
    \/ f.eax = SYS_OTHER
    \/ f.eax = SYS_EXIT
          /\ (Len(f.entry.contexts) <= 1 \/ f.entry.context_i <= 1)
    \/ f.eax = SYS_WINDOW_DESTROY /\ f.ebx \notin Range(f.entry.windows)

NoOpAbsorbed ==
    (HasFrame /\ ~Top.switched /\ Malformed(Top)) =>
        LET e == Top.entry
        IN /\ contexts = e.contexts
           /\ context_i = e.context_i
           /\ windows = e.windows
           /\ events = e.events
           /\ active = e.active
           /\ running = e.running
           /\ interrupts = (IF Top.guard THEN FALSE ELSE e.interrupts)
           /\ last.kind \notin {"remap", "switch"}

\* C5 witness: an exit at cursor 1 of a table of three returns, with
\* windows and events present and interrupts enabled.
ExitRefusedAtOne ==
    /\ At(SYS_EXIT, "ret")
    /\ Len(contexts) = 3 /\ context_i = 1
    /\ windows # <<>> /\ events # <<>>
    /\ interrupts

\* C6: the context that index 0 held initially (context 1) is at index 0 of
\* the table in every state.
ReservedKept == Len(contexts) >= 1 /\ contexts[1] = 1

\* C6 witness: context 3 has exited and the table is [1, 2].
ThirdExited ==
    /\ contexts = <<1, 2>>
    /\ frames[3] # <<>> /\ Head(frames[3]).pc = "e_rel"
    /\ ~HasFrame

\* C7: every switch is the step right after a remap of the same target,
\* which is then the active address space and the executing context; and
\* right after every remap the frame stands at the switch to that target.
RemapBeforeSwitch ==
    /\ last.kind = "switch" =>
          /\ last.prev = <<"remap", last.target>>
          /\ active = last.target
          /\ running = last.target
    /\ last.kind = "remap" =>
          /\ HasFrame /\ Top.pc \in {"y_switch", "e_switch"}
          /\ Top.next = <<last.target>>
          /\ active = last.target

\* C7 witness: a yield switched to the context it had just remapped.
YieldSwitched ==
    /\ last.kind = "switch" /\ last.eax = SYS_YIELD
    /\ last.prev[1] = "remap"
    /\ active = running /\ running # last.from

\* C8: a release leaves the interrupt flag at the value the acquire of the
\* same frame found, also when a switch suspended the frame in between; and
\* every operation returns with the flag it was entered with, so one
\* entered with interrupts masked returns with them masked.
MaskRestored ==
    /\ (HasFrame /\ last.kind = "release") =>
          /\ Top.pc = "ret" /\ ~Top.guard
          /\ interrupts = Top.acq
    /\ (HasFrame /\ Top.pc = "ret" /\ ~Top.switched) =>
          interrupts = Top.entry.interrupts

\* C8 witness: a yield made by an interrupt handler, so with interrupts
\* masked, is resumed after the contexts that ran in between released with
\* interrupts enabled, and its release leaves them masked.
MaskedYieldResumed ==
    /\ At(SYS_YIELD, "ret") /\ Top.irq /\ Top.switched
    /\ last.kind = "release"
    /\ ~Top.acq /\ ~interrupts
    /\ \E x \in Range(contexts) :
          x # running /\ frames[x] # <<>> /\ Head(frames[x]).acq

\* C9: every step that reads or writes the table, the cursor, the window
\* list or the event queue runs with interrupts masked, in a frame that
\* holds the guard; a frame that an interrupt handler runs on top of never
\* holds the guard, and the handler starts with the cursor inside the table.
GuardedObjects == {"contexts", "context_i", "windows", "events"}

GuardLinearizes ==
    /\ (last.objs \cap GuardedObjects # {}) => (last.masked /\ last.guard)
    /\ \A k \in 2..Len(frames[running]) : ~frames[running][k].guard
    /\ last.kind = "irq" =>
          /\ ~last.guard
          /\ context_i \in 0..(Len(contexts) - 1)

\* C9 witness: an interrupt handler has pushed its own event while the
\* Event-trigger it interrupted still waits before its acquire.
HandlerBetweenOperations ==
    /\ At(SYS_TRIGGER, "ret") /\ Top.irq
    /\ Len(frames[running]) = 2
    /\ frames[running][2].eax = SYS_TRIGGER
    /\ frames[running][2].pc = "t_acq"
    /\ events # <<>>

\* C10 as claimed: every step that touches a shared singleton runs with
\* interrupts masked by a guard its operation acquired.
AllSingletonsGuarded == (last.objs # {}) => (last.masked /\ last.guard)

\* C10 as amended: the table, the cursor, the window list and the event
\* queue are touched only under the guard; the steps that touch a singleton
\* without it are those of Debug-output, of Resource-open and of
\* Event-trigger before its acquire, and they touch only the session's
\* cursor position and redraw level and the debug surface, cursor and flags.
GuardedExceptSessionAndDebug ==
    /\ (last.objs \cap GuardedObjects # {}) => (last.masked /\ last.guard)
    /\ (last.objs # {} /\ ~(last.masked /\ last.guard)) =>
          /\ last.pc \in {"debug", "d_scroll", "open", "t_mouse", "t_key"}
          /\ last.objs \subseteq {"session", "debug"}

\* C10 witness: Event-trigger moved the session cursor with interrupts
\* enabled and no guard held.
SessionMovedUnguarded ==
    /\ last.eax = SYS_TRIGGER /\ last.pc = "t_mouse"
    /\ "session" \in last.objs
    /\ ~last.masked /\ ~last.guard

\* C11: a Window-destroy(h) that returns has removed the first entry equal
\* to h and nothing else: the list is shorter by one when h was present,
\* a later entry equal to h included, and unchanged when h was absent.
RemoveFirst(ws, h) ==
    IF \E k \in 1..Len(ws) : ws[k] = h
    THEN LET k == CHOOSE k \in 1..Len(ws) :
                     ws[k] = h /\ \A j \in 1..(k - 1) : ws[j] # h
         IN SubSeq(ws, 1, k - 1) \o SubSeq(ws, k + 1, Len(ws))
    ELSE ws

DestroyRemovesFirst ==
    At(SYS_WINDOW_DESTROY, "ret") =>
        windows = RemoveFirst(Top.entry.windows, Top.ebx)

\* C12: a Window-destroy(h) that directly follows a Window-destroy(h)
\* returns with the list the first call left; the loop index never passes
\* the end of the list, and every Window-destroy that starts returns.
DestroyIdempotent ==
    /\ [](At(SYS_WINDOW_DESTROY, "ret") /\ done # <<>>
          /\ done[1].eax = SYS_WINDOW_DESTROY /\ done[1].ebx = Top.ebx
          /\ Top.entry.windows = done[1].after
          => windows = done[1].after)
    /\ [](At(SYS_WINDOW_DESTROY, "wd_loop") => Top.i <= Len(windows))
    /\ (At(SYS_WINDOW_DESTROY, "wd_acq") ~> At(SYS_WINDOW_DESTROY, "ret"))

\* C12 witness: the second of two Window-destroy(h) calls has returned, the
\* first having removed two entries equal to h and kept another entry.
DestroyedTwice ==
    /\ At(SYS_WINDOW_DESTROY, "ret") /\ done # <<>>
    /\ done[1].eax = SYS_WINDOW_DESTROY /\ done[1].ebx = Top.ebx
    /\ Top.entry.windows = done[1].after
    /\ Len(done[1].before) = Len(done[1].after) + 2
    /\ windows # <<>>

\* C13: the only step that changes the event queue is the push of an
\* Event-trigger, which appends one event behind the entries already there;
\* an event whose code is not pointer motion is the caller's record
\* unchanged, and a pointer-motion event keeps its code and c; a trigger
\* that returns has made the queue one entry longer than it found it.
QueueAppendOnly ==
    /\ [][\/ events' = events
          \/ /\ At(SYS_TRIGGER, "t_push")
             /\ Len(events') = Len(events) + 1
             /\ SubSeq(events', 1, Len(events)) = events
             /\ LET given == EventAt[Top.ebx]
                    pushed == events'[Len(events')]
                IN IF given.code = "m"
                   THEN pushed.code = "m" /\ pushed.c = given.c
                   ELSE pushed = given]_vars
    /\ [](At(SYS_TRIGGER, "ret") =>
             /\ Len(events) = Len(Top.entry.events) + 1
             /\ SubSeq(events, 1, Len(events) - 1) = Top.entry.events)

\* C13 witness: two triggers have returned, a key event and then an event
\* of another class, and the queue holds them in that order, unchanged.
TwoQueuedInOrder ==
    /\ At(SYS_TRIGGER, "ret") /\ Top.ebx = 6
    /\ events = <<EventAt[3], EventAt[6]>>

\* C14 as claimed: a key-down of a debug-mode key flips the overlay flag;
\* turned on, the debug redraw flag is set, turned off, the session redraw
\* level is full redraw.
DebugKeyDown(e) == e.code = "k" /\ e.b \in {KEY_F1, KEY_F2} /\ e.c > 0

DebugKeyFlips ==
    (At(SYS_TRIGGER, "ret") /\ DebugKeyDown(EventAt[Top.ebx])) =>
        /\ debug_draw = ~Top.entry.debug_draw
        /\ debug_draw => debug_redraw
        /\ ~debug_draw => redraw = REDRAW_ALL

\* C14 as amended: a key-down of F1 (0x3B) leaves the overlay flag on,
\* whatever it was, and the debug redraw flag set; a key-down of F2 (0x3C)
\* leaves the overlay flag off, whatever it was, and the session redraw
\* level at full redraw; any other event leaves the overlay flag as it was.
DebugKeysSetAndClear ==
    At(SYS_TRIGGER, "ret") =>
        LET e == EventAt[Top.ebx]
        IN /\ (e.code = "k" /\ e.b = KEY_F1 /\ e.c > 0) =>
                 /\ debug_draw /\ debug_redraw
                 /\ redraw = Top.entry.redraw
           /\ (e.code = "k" /\ e.b = KEY_F2 /\ e.c > 0) =>
                 /\ ~debug_draw
                 /\ debug_redraw = Top.entry.debug_redraw
                 /\ redraw = REDRAW_ALL
           /\ ~DebugKeyDown(e) =>
                 /\ debug_draw = Top.entry.debug_draw
                 /\ debug_redraw = Top.entry.debug_redraw

\* C14 witness: a key-down of F2 with the overlay off has returned, and
\* the overlay is still off.
ClearedWhileOff ==
    /\ At(SYS_TRIGGER, "ret") /\ Top.ebx = 4
    /\ ~Top.entry.debug_draw /\ ~debug_draw
    /\ redraw = REDRAW_ALL

\* C19: a pointer-motion trigger that returns has set the session cursor
\* to (min(W-1, max(0, x+a)), min(H-1, max(0, y+b))), has enqueued the
\* event with exactly those coordinates, and has left the redraw level no
\* lower than it was and at least at the cursor-redraw level; every
\* pointer-motion trigger returns; the session cursor is on the display
\* in every state.
\* min(hi, max(0, x + d)) over the integers, for 0 <= x <= hi.
ClampedSum(x, d, hi) ==
    IF d > hi - x THEN hi ELSE IF d < -x THEN 0 ELSE x + d

PointerClamped ==
    /\ mouse_point.x \in 0..(display.width - 1)
    /\ mouse_point.y \in 0..(display.height - 1)
    /\ ~(HasFrame /\ Top.pc = "panic")
    /\ (At(SYS_TRIGGER, "ret") /\ EventAt[Top.ebx].code = "m") =>
          LET e == EventAt[Top.ebx]
              was == Top.entry.mouse_point
              queued == events[Len(events)]
          IN /\ mouse_point.x = ClampedSum(was.x, e.a, display.width - 1)
             /\ mouse_point.y = ClampedSum(was.y, e.b, display.height - 1)
             /\ queued = [code |-> "m", a |-> mouse_point.x,
                          b |-> mouse_point.y, c |-> e.c]
             /\ redraw >= Top.entry.redraw
             /\ redraw >= REDRAW_CURSOR

\* C20: with a surface of width W and height H, the drawing step of a
\* Debug-output draws a glyph exactly when the value is not 10; a call that
\* returns has moved the cursor by one glyph width, or for the value 10 to
\* x = 0 on the next line, has wrapped x >= W to x = 0 on the next line, and
\* has taken 16 from y once for each scroll, scrolling only while
\* y + 16 > H; after every call x < W and y + 16 <= H; with no surface
\* the cursor is unchanged.
DebugCursorOnSurface ==
    /\ (last.eax = SYS_DEBUG /\ last.kind \in {"char", "break"}) =>
          (last.kind = "break") = (Top.ebx = NEWLINE)
    /\ At(SYS_DEBUG, "ret") =>
          LET was == Top.entry.debug_point
          IN IF debug_display = <<>>
             THEN debug_point = was /\ Top.scrolls = 0
             ELSE LET W == debug_display[1].width
                      H == debug_display[1].height
                      x0 == IF Top.ebx = NEWLINE THEN 0 ELSE was.x + GLYPH_W
                      y0 == IF Top.ebx = NEWLINE THEN was.y + GLYPH_H ELSE was.y
                      x1 == IF x0 >= W THEN 0 ELSE x0
                      y1 == IF x0 >= W THEN y0 + GLYPH_H ELSE y0
                  IN /\ debug_point = [x |-> x1, y |-> y1 - GLYPH_H * Top.scrolls]
                     /\ debug_point.x < W
                     /\ debug_point.y + GLYPH_H <= H
                     /\ Top.scrolls > 0 => debug_point.y + 2 * GLYPH_H > H

\* C20 witness: a glyph drawn at the end of the last line of a surface of
\* three glyphs by three lines has wrapped and scrolled once.
WrappedAndScrolled ==
    /\ At(SYS_DEBUG, "ret") /\ Top.ebx = 65
    /\ debug_display = Surface(24, 48)
    /\ Top.entry.debug_point = [x |-> 16, y |-> 32]
    /\ debug_point = [x |-> 0, y |-> 32]
    /\ Top.scrolls = 1

\* C15 (its case never arises): the removal of an exit is reached only
\* with the cursor above 1 and inside the table, so it leaves at least two
\* entries, and the exit then always remaps and switches.
ExitLeavesTwo ==
    (At(SYS_EXIT, "e_fix") \/ At(SYS_EXIT, "e_sel")) =>
        /\ Len(contexts) >= 2
        /\ Len(contexts) = Len(Top.entry.contexts) - 1

\* C16: whenever no yield or exit is between its cursor update and its
\* switch, the executing context is the one stored at the cursor and its
\* address space is the active one; the table holds no context twice, so
\* exactly one entry is Running, and every other entry is suspended in the
\* switch of a yield, to be resumed at that yield's release.
InTransfer ==
    /\ HasFrame /\ Top.eax \in {SYS_YIELD, SYS_EXIT}
    /\ Top.pc \in {"y_wrap", "y_sel", "y_remap", "y_switch",
                   "e_fix", "e_sel", "e_remap", "e_switch"}

RunningAtCursor ==
    ~InTransfer =>
        /\ context_i \in 0..(Len(contexts) - 1)
        /\ running = contexts[context_i + 1]
        /\ active = running
        /\ \A j, k \in 1..Len(contexts) : j # k => contexts[j] # contexts[k]
        /\ \A x \in Range(contexts) \ {running} :
              /\ frames[x] # <<>>
              /\ Head(frames[x]).eax = SYS_YIELD
              /\ Head(frames[x]).pc = "y_rel"
              /\ Head(frames[x]).switched

\* C16 witness: an exit of the entry at index 2 of four has handed over to
\* the entry that followed it, which now executes at the cursor.
HandedOverAtCursor ==
    /\ last.eax = SYS_EXIT /\ last.kind = "switch"
    /\ last.entry.contexts = <<1, 2, 3, 4>> /\ last.entry.context_i = 2
    /\ contexts = <<1, 2, 4>> /\ context_i = 2
    /\ running = 4 /\ active = 4
    /\ At(SYS_YIELD, "y_rel")

\* C17: no step lengthens the table or adds a context to it; the only step
\* that shortens it is the removal of an exit that was permitted on entry,
\* which takes out one entry; a permitted exit reaches that removal; every
\* remap and switch names a context of the table; a context that is not in
\* the table executes only the rest of its exit up to the switch, and
\* never the exit's release.
Removed(x) == x \notin Range(contexts) /\ frames[x] # <<>>

RemovedIsAbsorbing ==
    /\ [][/\ Len(contexts') <= Len(contexts)
          /\ Range(contexts') \subseteq Range(contexts)
          /\ contexts' # contexts =>
                /\ At(SYS_EXIT, "e_remove")
                /\ ExitPermitted(Len(Top.entry.contexts), Top.entry.context_i)
                /\ Len(contexts') = Len(contexts) - 1
                /\ running \notin Range(contexts')
          /\ (\A x \in Ctx : Removed(x) => Removed(x)')]_vars
    /\ [](At(SYS_EXIT, "e_fix") =>
             Len(contexts) = Len(Top.entry.contexts) - 1)
    /\ []((At(SYS_EXIT, "e_rel") \/ At(SYS_EXIT, "ret")) =>
             /\ running \in Range(contexts)
             /\ ~Top.switched => contexts = Top.entry.contexts)
    /\ [](last.kind \in {"remap", "switch"} => last.target \in Range(contexts))
    /\ [](\A x \in Ctx : (Removed(x) /\ running = x) =>
             /\ Top.eax = SYS_EXIT
             /\ Top.pc \in {"e_fix", "e_sel", "e_remap", "e_switch"})

\* C17 witness: with one context removed and parked at its exit's release,
\* a yield of a remaining context has switched to another remaining one.
YieldAfterRemoval ==
    /\ last.eax = SYS_YIELD /\ last.kind = "switch"
    /\ \E x \in Ctx :
          /\ Removed(x) /\ x # running
          /\ Head(frames[x]).eax = SYS_EXIT /\ Head(frames[x]).pc = "e_rel"

\* C18: every context is again and again either the executing one or out
\* of the table; a yield hands over to the entry after the cursor and an
\* exit to the entry that followed the exited one, in the order of the
\* table as the operation found it, wrapping at its end.
NoStarvation ==
    /\ \A x \in Ctx : []<>(running = x \/ x \notin Range(contexts))
    /\ [](last.kind = "switch" =>
             LET e == last.entry
             IN last.target =
                   e.contexts[((e.context_i + 1) % Len(e.contexts)) + 1])

\* C18 witness: in a table of four, shortened to three by an exit, the
\* yields since have made a full round and the context at index 0 executes.
RoundAfterExit ==
    /\ Len(contexts) = MaxContexts - 1
    /\ \E x \in Ctx : Removed(x)
    /\ Len(visits) = Len(contexts) + 1
    /\ context_i = 0 /\ running = contexts[1]
    /\ ~HasFrame

====
